---- MODULE Spec2Model ----
(***************************************************************************)
(* Model of modules/libmicroxrcedds/generate_dds_messages.py: the message  *)
(* list parser, the IDL path resolver and the batch generator driver.      *)
(*                                                                         *)
(* Text is modelled character by character: a string is a sequence of      *)
(* one-character strings, a path is the string pathlib renders for it.     *)
(* The outside world (the package registry, the file system, the generator *)
(* binary) answers nondeterministically; an answer about the installed     *)
(* tree is fixed the first time it is observed and kept for the rest of    *)
(* the run.                                                                *)
(***************************************************************************)
EXTENDS Integers, Sequences, FiniteSets, TLC

VARIABLES
    pc,               \* position of main()
    file_exists,      \* whether args.message_file exists
    file,             \* the lines of args.message_file (without line ends)
    replace,          \* args.replace
    include_paths,    \* args.include
    package_msgs,     \* the map built by parse_message_list (insertion ordered)
    idl_generators,   \* locate_idl_files: the descriptors found so far
    missing_packages, \* locate_idl_files: packages whose lookup raised
    pkg_idx,          \* locate_idl_files: position of the package loop
    registry,         \* what `ros2 pkg prefix --share` answered, per package
    msg_dirs,         \* packages whose share directory was seen with/without msg
    idl_files,        \* IDL paths seen to exist or not
    lookups,          \* packages handed to find_ros_share_dir, in call order
    running,          \* number of child processes not yet waited for
    dirs,             \* directories created by this run
    out_files,        \* files present under the output directory
    package_groups,   \* generate_uxr_code: descriptors grouped by package
    grp_idx,          \* generate_uxr_code: position of the group loop
    invoked,          \* subprocess.run calls of the generator, in call order
    generated_files,  \* generate_uxr_code: the verified output paths
    exit_code,        \* process exit status, -1 while running
    runs,             \* number of completed locate_idl_files runs
    first_run         \* descriptors returned by the first locate_idl_files run

vars == << pc, file_exists, file, replace, include_paths, package_msgs,
           idl_generators, missing_packages, pkg_idx, registry, msg_dirs,
           idl_files, lookups, running, dirs, out_files, package_groups,
           grp_idx, invoked, generated_files, exit_code, runs, first_run >>

\* ------------------------------------------------------------------ bounds

\* Longest message list file, in lines.
MaxLines == 3

\* ------------------------------------------------------------ text helpers

\* str.strip() removes these characters (the ones that occur in the inputs).
IsSpace(c) == c \in {" ", "\t", "\n", "\r"}

RECURSIVE LStrip(_)
LStrip(s) ==
    IF s = << >> THEN s
    ELSE IF IsSpace(Head(s)) THEN LStrip(Tail(s)) ELSE s

RECURSIVE RStrip(_)
RStrip(s) ==
    IF s = << >> THEN s
    ELSE IF IsSpace(s[Len(s)]) THEN RStrip(SubSeq(s, 1, Len(s) - 1)) ELSE s

\* str.strip()
Strip(s) == RStrip(LStrip(s))

\* c in s
Contains(s, c) == \E i \in 1..Len(s) : s[i] = c

\* s.find(c) + 1: the first position of c in s, 0 when absent
Find(s, c) ==
    IF Contains(s, c)
    THEN CHOOSE i \in 1..Len(s) :
             /\ s[i] = c
             /\ \A j \in 1..(i - 1) : s[j] # c
    ELSE 0

\* s.split(c, 1) for s containing c
Split1(s, c) ==
    LET i == Find(s, c)
    IN  << SubSeq(s, 1, i - 1), SubSeq(s, i + 1, Len(s)) >>

\* str.lower() on one character
LowerChar(c) ==
    CASE c = "X" -> "x"
      [] c = "Y" -> "y"
      [] c = "Z" -> "z"
      [] OTHER   -> c

\* str.lower()
Lower(s) == [i \in 1..Len(s) |-> LowerChar(s[i])]

\* ---------------------------------------------------- parse_message_list

\* Position of package p among the keys of map m, 0 when absent.
KeyIndex(m, p) ==
    IF \E i \in 1..Len(m) : m[i].package = p
    THEN CHOOSE i \in 1..Len(m) : m[i].package = p
    ELSE 0

\* package_msgs[package].append(msg_type) on a defaultdict(list)
MapAppend(m, p, t) ==
    LET i == KeyIndex(m, p)
    IN  IF i = 0
        THEN Append(m, [package |-> p, msg_types |-> << t >>])
        ELSE [m EXCEPT ![i].msg_types = Append(@, t)]

\* Variant of ParseLine that does not skip comment lines.
ParseLineNoComment(m, raw) ==
    LET line == Strip(raw)
    IN  IF line = << >> THEN m
        ELSE IF ~Contains(line, "/") THEN m
        ELSE LET parts    == Split1(line, "/")
                 package  == Strip(parts[1])
                 msg_type == Strip(parts[2])
             IN  IF package = << >> \/ msg_type = << >> THEN m
                 ELSE MapAppend(m, package, msg_type)

\* One iteration of the line loop: the map after the raw line `raw`.
ParseLine(m, raw) ==
    LET line == Strip(raw)
    IN  IF line = << >> \/ Head(line) = "#" THEN m
        ELSE IF ~Contains(line, "/") THEN m
        ELSE LET parts    == Split1(line, "/")
                 package  == Strip(parts[1])
                 msg_type == Strip(parts[2])
             IN  IF package = << >> \/ msg_type = << >> THEN m
                 ELSE MapAppend(m, package, msg_type)

\* `for line in f`: every line comes with its line end.
RawLine(body) == body \o << "\n" >>

RECURSIVE ParseLines(_, _)
ParseLines(m, lines) ==
    IF lines = << >> THEN m
    ELSE ParseLines(ParseLine(m, RawLine(Head(lines))), Tail(lines))

\* parse_message_list for an existing file holding `lines`
parse_message_list(lines) == ParseLines(<< >>, lines)

\* ------------------------------------------------------------------ paths

\* pathlib's `a / b` for a relative b, rendered as a string
PathJoin(a, b) == a \o << "/" >> \o b

MSG == << "m", "s", "g" >>
DOT_IDL == << ".", "i", "d", "l" >>
DOT_H == << ".", "h" >>
DOT_C == << ".", "c" >>

\* args.output
OutputDir == << "o", "u", "t" >>

\* The share directory the registry reports for an installed package.
ShareDir(package) == << "/", "s", "/" >> \o package

\* ------------------------------------------------------------ IdlGenerator

\* IdlGenerator.__init__
IdlGenerator(package, msg_type, idl_path) ==
    [ package  |-> package,
      msg_type |-> msg_type,
      idl_path |-> idl_path,
      h_name   |-> Lower(msg_type) \o DOT_H,
      c_name   |-> Lower(msg_type) \o DOT_C,
      rel_dir  |-> PathJoin(package, MSG) ]

\* ------------------------------------------------------ find_ros_share_dir

\* Answers of `ros2 pkg prefix --share <package>` once the child has run.
RegistryAnswers == {"ok", "nonzero", "empty"}

\* What the child printed on stdout.
RegistryStdout(package, answer) ==
    IF answer = "ok" THEN ShareDir(package) \o << "\n" >> ELSE << "\n" >>

\* Variant of find_ros_share_dir that returns an empty path as it is.
find_ros_share_dir_unchecked(package, answer) ==
    IF answer \in {"oserror", "nonzero"}
    THEN [raised |-> TRUE, path |-> << >>]
    ELSE [raised |-> FALSE, path |-> Strip(RegistryStdout(package, answer))]

\* find_ros_share_dir: raises, or returns the share path.
find_ros_share_dir(package, answer) ==
    IF answer \in {"oserror", "nonzero"}
    THEN [raised |-> TRUE, path |-> << >>]
    ELSE LET share_path == Strip(RegistryStdout(package, answer))
         IN  IF share_path = << >>
             THEN [raised |-> TRUE, path |-> << >>]
             ELSE [raised |-> FALSE, path |-> share_path]

\* -------------------------------------------------------- locate_idl_files

\* Variant of NewList: the accumulator outlives the call.
SharedList(old) == old

\* The accumulator a call starts with, whatever an earlier call left in it.
NewList(old) == << >>

\* msg_dir / f"{msg_type}.idl"
IdlPath(msg_dir, msg_type) == PathJoin(msg_dir, msg_type \o DOT_IDL)

\* The message loop of one package: a descriptor per message whose IDL exists.
RECURSIVE ResolveMsgs(_, _, _, _)
ResolveMsgs(package, msg_dir, msg_types, exists) ==
    IF msg_types = << >> THEN << >>
    ELSE LET idl_path == IdlPath(msg_dir, Head(msg_types))
             rest == ResolveMsgs(package, msg_dir, Tail(msg_types), exists)
         IN  IF exists[idl_path]
             THEN << IdlGenerator(package, Head(msg_types), idl_path) >> \o rest
             ELSE rest

\* The IDL paths the message loop of a package looks at.
IdlPathsOf(msg_dir, msg_types) ==
    { IdlPath(msg_dir, msg_types[i]) : i \in 1..Len(msg_types) }

\* Whether an observation agrees with what was observed before.
Agrees(memo, key, value) == key \in DOMAIN memo => memo[key] = value

\* ------------------------------------------------------- generate_uxr_code

GEN_BIN == << "m", "i", "c", "r", "o", "x", "r", "c", "e", "d", "d", "s", "g", "e", "n" >>
FLAG_CS == << "-", "c", "s" >>
FLAG_REPLACE == << "-", "r", "e", "p", "l", "a", "c", "e" >>
FLAG_D == << "-", "d" >>
FLAG_I == << "-", "I" >>

\* Position of the group of package p, 0 when absent.
GroupIndex(groups, p) ==
    IF \E i \in 1..Len(groups) : groups[i].package = p
    THEN CHOOSE i \in 1..Len(groups) : groups[i].package = p
    ELSE 0

\* package_groups[gen.package].append(gen) on a defaultdict(list)
GroupAppend(groups, gen) ==
    LET i == GroupIndex(groups, gen.package)
    IN  IF i = 0
        THEN Append(groups, [package |-> gen.package, generators |-> << gen >>])
        ELSE [groups EXCEPT ![i].generators = Append(@, gen)]

RECURSIVE GroupFrom(_, _)
GroupFrom(groups, gens) ==
    IF gens = << >> THEN groups
    ELSE GroupFrom(GroupAppend(groups, Head(gens)), Tail(gens))

\* The grouping loop of generate_uxr_code.
GroupByPackage(gens) == GroupFrom(<< >>, gens)

\* output_dir / package / "msg"
PkgOutputDir(package) == PathJoin(PathJoin(OutputDir, package), MSG)

\* str(path) of a pathlib.Path: the empty path renders as "."
PathStr(path) == IF path = << >> THEN << "." >> ELSE path

RECURSIVE IncludeArgs(_)
IncludeArgs(paths) ==
    IF paths = << >> THEN << >>
    ELSE << FLAG_I, PathStr(Head(paths)) >> \o IncludeArgs(Tail(paths))

\* [arg for arg in cmd if arg]
RECURSIVE DropEmpty(_)
DropEmpty(cmd) ==
    IF cmd = << >> THEN << >>
    ELSE IF Head(cmd) = << >> THEN DropEmpty(Tail(cmd))
    ELSE << Head(cmd) >> \o DropEmpty(Tail(cmd))

\* Variant of BuildCmd that passes the argument list on unfiltered.
BuildCmdUnfiltered(pkg_output_dir, generators, repl, includes) ==
    << GEN_BIN, FLAG_CS, IF repl THEN FLAG_REPLACE ELSE << >>,
       FLAG_D, pkg_output_dir >>
    \o IncludeArgs(includes)
    \o [i \in 1..Len(generators) |-> generators[i].idl_path]

\* The generator command of one package group.
BuildCmd(pkg_output_dir, generators, repl, includes) ==
    DropEmpty(
        << GEN_BIN, FLAG_CS, IF repl THEN FLAG_REPLACE ELSE << >>,
           FLAG_D, pkg_output_dir >>
        \o IncludeArgs(includes)
        \o [i \in 1..Len(generators) |-> generators[i].idl_path])

\* Variant of VerifyGroup that records whichever of the two files exists.
RECURSIVE VerifyGroupEither(_, _, _)
VerifyGroupEither(pkg_output_dir, generators, present) ==
    IF generators = << >> THEN << >>
    ELSE LET gen    == Head(generators)
             h_file == PathJoin(pkg_output_dir, gen.h_name)
             c_file == PathJoin(pkg_output_dir, gen.c_name)
             rest   == VerifyGroupEither(pkg_output_dir, Tail(generators), present)
         IN  (IF h_file \in present THEN << h_file >> ELSE << >>)
             \o (IF c_file \in present THEN << c_file >> ELSE << >>)
             \o rest

\* The verification loop of one group: header and source of every
\* descriptor for which both are present.
RECURSIVE VerifyGroup(_, _, _)
VerifyGroup(pkg_output_dir, generators, present) ==
    IF generators = << >> THEN << >>
    ELSE LET gen    == Head(generators)
             h_file == PathJoin(pkg_output_dir, gen.h_name)
             c_file == PathJoin(pkg_output_dir, gen.c_name)
             rest   == VerifyGroup(pkg_output_dir, Tail(generators), present)
         IN  IF h_file \in present /\ c_file \in present
             THEN << h_file, c_file >> \o rest
             ELSE rest

\* The files the generator is expected to write for a group.
ExpectedFiles(group) ==
    UNION { { PathJoin(PkgOutputDir(group.package), group.generators[i].h_name),
              PathJoin(PkgOutputDir(group.package), group.generators[i].c_name) } :
            i \in 1..Len(group.generators) }

\* ------------------------------------------------------------------ inputs

SeqsUpTo(S, n) == UNION { [1..k -> S] : k \in 0..n }

\* Lines of the message list files the whole program is run on.
PipelineLines ==
    { << "a", "/", "X" >>,
      << "a", "/", "Y" >>,
      << "b", "/", "X" >>,
      << "#", " ", "n" >> }

\* Lines of the message list files the parser alone is run on.
ParserLines ==
    PipelineLines \cup
    { << >>,
      << " ", "\t" >>,
      << " ", "#", "a", "/", "X" >>,
      << "a" >>,
      << "/", "X" >>,
      << "a", "/" >>,
      << " ", "/", " ", "X" >>,
      << "a", "/", " " >>,
      << " ", "a", " ", "/", " ", "X", " " >>,
      << "a", "/", "#", "X" >>,
      << "a", "/", "b", "/", "c" >>,
      << "a", "/", "/", "X" >>,
      << "b", " ", "c", "/", "X", " ", "Y" >> }

\* The lists of directories given with -I; the empty directory is
\* pathlib.Path("").
IncludeLists ==
    { << >>,
      << << "i" >> >>,
      << << "i" >>, << >> >> }

\* ------------------------------------------------------------------- state

Init ==
    /\ pc = "start"
    /\ file_exists \in BOOLEAN
    /\ file \in IF file_exists THEN SeqsUpTo(PipelineLines, MaxLines) ELSE { << >> }
    /\ replace \in BOOLEAN
    /\ include_paths \in IncludeLists
    /\ package_msgs = << >>
    /\ idl_generators = << >>
    /\ missing_packages = << >>
    /\ pkg_idx = 1
    /\ registry = << >>
    /\ msg_dirs = << >>
    /\ idl_files = << >>
    /\ lookups = << >>
    /\ running = 0
    /\ dirs = {}
    /\ out_files = {}
    /\ package_groups = << >>
    /\ grp_idx = 1
    /\ invoked = << >>
    /\ generated_files = << >>
    /\ exit_code = -1
    /\ runs = 0
    /\ first_run = << >>

\* The parser run on its own: the file exists, the options are the defaults.
InitParser ==
    /\ pc = "start"
    /\ file_exists = TRUE
    /\ file \in SeqsUpTo(ParserLines, MaxLines)
    /\ replace = TRUE
    /\ include_paths = << >>
    /\ package_msgs = << >>
    /\ idl_generators = << >>
    /\ missing_packages = << >>
    /\ pkg_idx = 1
    /\ registry = << >>
    /\ msg_dirs = << >>
    /\ idl_files = << >>
    /\ lookups = << >>
    /\ running = 0
    /\ dirs = {}
    /\ out_files = {}
    /\ package_groups = << >>
    /\ grp_idx = 1
    /\ invoked = << >>
    /\ generated_files = << >>
    /\ exit_code = -1
    /\ runs = 0
    /\ first_run = << >>

\* ------------------------------------------------------------ main: parse

\* parse_message_list raises (the file is not there): main exits with 1.
MainParseFails ==
    /\ pc = "start"
    /\ ~file_exists
    /\ pc' = "exit"
    /\ exit_code' = 1
    /\ UNCHANGED << file_exists, file, replace, include_paths, package_msgs,
                    idl_generators, missing_packages, pkg_idx, registry,
                    msg_dirs, idl_files, lookups, running, dirs, out_files,
                    package_groups, grp_idx, invoked, generated_files, runs,
                    first_run >>

\* The parsed map is empty: main exits with 1.
MainParseEmpty ==
    /\ pc = "start"
    /\ file_exists
    /\ parse_message_list(file) = << >>
    /\ package_msgs' = parse_message_list(file)
    /\ pc' = "exit"
    /\ exit_code' = 1
    /\ UNCHANGED << file_exists, file, replace, include_paths, idl_generators,
                    missing_packages, pkg_idx, registry, msg_dirs, idl_files,
                    lookups, running, dirs, out_files, package_groups, grp_idx,
                    invoked, generated_files, runs, first_run >>

\* The parsed map has entries: main goes on to locate_idl_files.
MainParseOk ==
    /\ pc = "start"
    /\ file_exists
    /\ parse_message_list(file) # << >>
    /\ package_msgs' = parse_message_list(file)
    /\ pc' = "call_locate"
    /\ UNCHANGED << file_exists, file, replace, include_paths, idl_generators,
                    missing_packages, pkg_idx, registry, msg_dirs, idl_files,
                    lookups, running, dirs, out_files, package_groups, grp_idx,
                    invoked, generated_files, exit_code, runs, first_run >>

\* -------------------------------------------------------- locate_idl_files

\* Entry of locate_idl_files: fresh accumulators, the loop at the first key.
LocateEnter ==
    /\ pc = "call_locate"
    /\ idl_generators' = NewList(idl_generators)
    /\ missing_packages' = NewList(missing_packages)
    /\ pkg_idx' = 1
    /\ pc' = "locate"
    /\ UNCHANGED << file_exists, file, replace, include_paths, package_msgs,
                    registry, msg_dirs, idl_files, lookups, running, dirs,
                    out_files, package_groups, grp_idx, invoked,
                    generated_files, exit_code, runs, first_run >>

\* find_ros_share_dir cannot start the registry command: the exception is
\* caught by the package loop, which records the package and goes on.
LookupSpawnFails ==
    /\ pc = "locate"
    /\ pkg_idx <= Len(package_msgs)
    /\ LET package == package_msgs[pkg_idx].package
       IN  /\ Agrees(registry, package, "oserror")
           /\ find_ros_share_dir(package, "oserror").raised
           /\ registry' = (package :> "oserror") @@ registry
           /\ lookups' = Append(lookups, package)
           /\ missing_packages' = Append(missing_packages, package)
    /\ pkg_idx' = pkg_idx + 1
    /\ UNCHANGED << pc, file_exists, file, replace, include_paths,
                    package_msgs, idl_generators, msg_dirs, idl_files, running,
                    dirs, out_files, package_groups, grp_idx, invoked,
                    generated_files, exit_code, runs, first_run >>

\* find_ros_share_dir starts the registry command and waits for it.
LookupStart ==
    /\ pc = "locate"
    /\ pkg_idx <= Len(package_msgs)
    /\ LET package == package_msgs[pkg_idx].package
       IN  /\ ~(package \in DOMAIN registry /\ registry[package] = "oserror")
           /\ lookups' = Append(lookups, package)
    /\ running' = running + 1
    /\ pc' = "lookup_wait"
    /\ UNCHANGED << file_exists, file, replace, include_paths, package_msgs,
                    idl_generators, missing_packages, pkg_idx, registry,
                    msg_dirs, idl_files, dirs, out_files, package_groups,
                    grp_idx, invoked, generated_files, exit_code, runs,
                    first_run >>

\* The registry command failed or printed nothing: find_ros_share_dir
\* raises, the package is recorded as missing, the loop goes on.
LookupRaises ==
    /\ pc = "lookup_wait"
    /\ LET package == package_msgs[pkg_idx].package
       IN  \E answer \in RegistryAnswers :
               /\ Agrees(registry, package, answer)
               /\ find_ros_share_dir(package, answer).raised
               /\ registry' = (package :> answer) @@ registry
               /\ missing_packages' = Append(missing_packages, package)
    /\ running' = running - 1
    /\ pkg_idx' = pkg_idx + 1
    /\ pc' = "locate"
    /\ UNCHANGED << file_exists, file, replace, include_paths, package_msgs,
                    idl_generators, msg_dirs, idl_files, lookups, dirs,
                    out_files, package_groups, grp_idx, invoked,
                    generated_files, exit_code, runs, first_run >>

\* The share directory has no msg subdirectory: the package is skipped.
LookupNoMsgDir ==
    /\ pc = "lookup_wait"
    /\ LET package == package_msgs[pkg_idx].package
       IN  \E answer \in RegistryAnswers :
               /\ Agrees(registry, package, answer)
               /\ ~find_ros_share_dir(package, answer).raised
               /\ Agrees(msg_dirs, package, FALSE)
               /\ registry' = (package :> answer) @@ registry
               /\ msg_dirs' = (package :> FALSE) @@ msg_dirs
    /\ running' = running - 1
    /\ pkg_idx' = pkg_idx + 1
    /\ pc' = "locate"
    /\ UNCHANGED << file_exists, file, replace, include_paths, package_msgs,
                    idl_generators, missing_packages, idl_files, lookups, dirs,
                    out_files, package_groups, grp_idx, invoked,
                    generated_files, exit_code, runs, first_run >>

\* The share directory has a msg subdirectory: the message loop runs.
LookupResolves ==
    /\ pc = "lookup_wait"
    /\ LET entry   == package_msgs[pkg_idx]
           package == entry.package
       IN  \E answer \in RegistryAnswers :
               /\ Agrees(registry, package, answer)
               /\ ~find_ros_share_dir(package, answer).raised
               /\ Agrees(msg_dirs, package, TRUE)
               /\ LET msg_dir == PathJoin(find_ros_share_dir(package, answer).path, MSG)
                  IN  \E exists \in [IdlPathsOf(msg_dir, entry.msg_types) -> BOOLEAN] :
                          /\ \A path \in DOMAIN exists :
                                 Agrees(idl_files, path, exists[path])
                          /\ idl_files' = exists @@ idl_files
                          /\ idl_generators' =
                                 idl_generators
                                 \o ResolveMsgs(package, msg_dir, entry.msg_types, exists)
               /\ registry' = (package :> answer) @@ registry
               /\ msg_dirs' = (package :> TRUE) @@ msg_dirs
    /\ running' = running - 1
    /\ pkg_idx' = pkg_idx + 1
    /\ pc' = "locate"
    /\ UNCHANGED << file_exists, file, replace, include_paths, package_msgs,
                    missing_packages, lookups, dirs, out_files, package_groups,
                    grp_idx, invoked, generated_files, exit_code, runs,
                    first_run >>

\* ----------------------------------------------------------- main: locate

\* locate_idl_files returned no descriptor: main exits with 1.
MainNoIdl ==
    /\ pc = "locate"
    /\ pkg_idx > Len(package_msgs)
    /\ idl_generators = << >>
    /\ pc' = "exit"
    /\ exit_code' = 1
    /\ UNCHANGED << file_exists, file, replace, include_paths, package_msgs,
                    idl_generators, missing_packages, pkg_idx, registry,
                    msg_dirs, idl_files, lookups, running, dirs, out_files,
                    package_groups, grp_idx, invoked, generated_files, runs,
                    first_run >>

\* Variant of MainLocated without the check for an empty descriptor list.
MainLocatedUnchecked ==
    /\ pc = "locate"
    /\ pkg_idx > Len(package_msgs)
    /\ pc' = "call_generate"
    /\ UNCHANGED << file_exists, file, replace, include_paths, package_msgs,
                    idl_generators, missing_packages, pkg_idx, registry,
                    msg_dirs, idl_files, lookups, running, dirs, out_files,
                    package_groups, grp_idx, invoked, generated_files,
                    exit_code, runs, first_run >>

\* locate_idl_files returned descriptors: main goes on to generate_uxr_code.
MainLocated ==
    /\ pc = "locate"
    /\ pkg_idx > Len(package_msgs)
    /\ idl_generators # << >>
    /\ pc' = "call_generate"
    /\ UNCHANGED << file_exists, file, replace, include_paths, package_msgs,
                    idl_generators, missing_packages, pkg_idx, registry,
                    msg_dirs, idl_files, lookups, running, dirs, out_files,
                    package_groups, grp_idx, invoked, generated_files,
                    exit_code, runs, first_run >>

\* ------------------------------------------------------- generate_uxr_code

\* Entry of generate_uxr_code: output_dir.mkdir raises, nothing catches it,
\* the interpreter ends the process with status 1.
GenerateMkdirFails ==
    /\ pc = "call_generate"
    /\ package_groups' = GroupByPackage(idl_generators)
    /\ pc' = "exit"
    /\ exit_code' = 1
    /\ UNCHANGED << file_exists, file, replace, include_paths, package_msgs,
                    idl_generators, missing_packages, pkg_idx, registry,
                    msg_dirs, idl_files, lookups, running, dirs, out_files,
                    grp_idx, invoked, generated_files, runs, first_run >>

\* Entry of generate_uxr_code: the descriptors are grouped, the output
\* directory is created, the result list starts empty.
GenerateEnter ==
    /\ pc = "call_generate"
    /\ package_groups' = GroupByPackage(idl_generators)
    /\ dirs' = dirs \cup { OutputDir }
    /\ generated_files' = << >>
    /\ grp_idx' = 1
    /\ pc' = "generate"
    /\ UNCHANGED << file_exists, file, replace, include_paths, package_msgs,
                    idl_generators, missing_packages, pkg_idx, registry,
                    msg_dirs, idl_files, lookups, running, out_files, invoked,
                    exit_code, runs, first_run >>

\* pkg_output_dir.mkdir raises outside the try block: the process ends
\* with status 1.
GroupMkdirFails ==
    /\ pc = "generate"
    /\ grp_idx <= Len(package_groups)
    /\ pc' = "exit"
    /\ exit_code' = 1
    /\ UNCHANGED << file_exists, file, replace, include_paths, package_msgs,
                    idl_generators, missing_packages, pkg_idx, registry,
                    msg_dirs, idl_files, lookups, running, dirs, out_files,
                    package_groups, grp_idx, invoked, generated_files, runs,
                    first_run >>

\* The generator cannot be started: `except Exception` logs it and the
\* loop goes on to the next group.
GroupSpawnFails ==
    /\ pc = "generate"
    /\ grp_idx <= Len(package_groups)
    /\ LET group == package_groups[grp_idx]
           pkg_output_dir == PkgOutputDir(group.package)
       IN  /\ dirs' = dirs \cup { pkg_output_dir }
           /\ invoked' = Append(invoked,
                  [ package |-> group.package,
                    cmd     |-> BuildCmd(pkg_output_dir, group.generators,
                                         replace, include_paths),
                    status  |-> "oserror" ])
    /\ grp_idx' = grp_idx + 1
    /\ UNCHANGED << pc, file_exists, file, replace, include_paths,
                    package_msgs, idl_generators, missing_packages, pkg_idx,
                    registry, msg_dirs, idl_files, lookups, running, out_files,
                    package_groups, generated_files, exit_code, runs,
                    first_run >>

\* The package directory is created, the command built, the generator
\* started; subprocess.run waits for it.
GroupStart ==
    /\ pc = "generate"
    /\ grp_idx <= Len(package_groups)
    /\ LET group == package_groups[grp_idx]
           pkg_output_dir == PkgOutputDir(group.package)
       IN  /\ dirs' = dirs \cup { pkg_output_dir }
           /\ invoked' = Append(invoked,
                  [ package |-> group.package,
                    cmd     |-> BuildCmd(pkg_output_dir, group.generators,
                                         replace, include_paths),
                    status  |-> "running" ])
    /\ running' = running + 1
    /\ pc' = "gen_wait"
    /\ UNCHANGED << file_exists, file, replace, include_paths, package_msgs,
                    idl_generators, missing_packages, pkg_idx, registry,
                    msg_dirs, idl_files, lookups, out_files, package_groups,
                    grp_idx, generated_files, exit_code, runs, first_run >>

\* Variant of GroupFails that leaves the group loop at the first failure.
GroupFailsStops ==
    /\ pc = "gen_wait"
    /\ \E written \in SUBSET ExpectedFiles(package_groups[grp_idx]) :
           out_files' = out_files \cup written
    /\ invoked' = [invoked EXCEPT ![Len(invoked)].status = "nonzero"]
    /\ running' = running - 1
    /\ grp_idx' = Len(package_groups) + 1
    /\ pc' = "generate"
    /\ UNCHANGED << file_exists, file, replace, include_paths, package_msgs,
                    idl_generators, missing_packages, pkg_idx, registry,
                    msg_dirs, idl_files, lookups, dirs, package_groups,
                    generated_files, exit_code, runs, first_run >>

\* The generator exits with a non-zero status (whatever it wrote):
\* CalledProcessError is logged and the loop goes on to the next group.
GroupFails ==
    /\ pc = "gen_wait"
    /\ \E written \in SUBSET ExpectedFiles(package_groups[grp_idx]) :
           out_files' = out_files \cup written
    /\ invoked' = [invoked EXCEPT ![Len(invoked)].status = "nonzero"]
    /\ running' = running - 1
    /\ grp_idx' = grp_idx + 1
    /\ pc' = "generate"
    /\ UNCHANGED << file_exists, file, replace, include_paths, package_msgs,
                    idl_generators, missing_packages, pkg_idx, registry,
                    msg_dirs, idl_files, lookups, dirs, package_groups,
                    generated_files, exit_code, runs, first_run >>

\* The generator exits with status 0 (whatever it wrote): the files of the
\* group are verified and recorded.
GroupVerified ==
    /\ pc = "gen_wait"
    /\ LET group == package_groups[grp_idx]
       IN  \E written \in SUBSET ExpectedFiles(group) :
               /\ out_files' = out_files \cup written
               /\ generated_files' =
                      generated_files
                      \o VerifyGroup(PkgOutputDir(group.package), group.generators,
                                     out_files \cup written)
    /\ invoked' = [invoked EXCEPT ![Len(invoked)].status = "ok"]
    /\ running' = running - 1
    /\ grp_idx' = grp_idx + 1
    /\ pc' = "generate"
    /\ UNCHANGED << file_exists, file, replace, include_paths, package_msgs,
                    idl_generators, missing_packages, pkg_idx, registry,
                    msg_dirs, idl_files, lookups, dirs, package_groups,
                    exit_code, runs, first_run >>

\* ------------------------------------------------------------- main: done

\* generate_uxr_code returned: main logs the totals and ends with status 0.
MainDone ==
    /\ pc = "generate"
    /\ grp_idx > Len(package_groups)
    /\ pc' = "exit"
    /\ exit_code' = 0
    /\ UNCHANGED << file_exists, file, replace, include_paths, package_msgs,
                    idl_generators, missing_packages, pkg_idx, registry,
                    msg_dirs, idl_files, lookups, running, dirs, out_files,
                    package_groups, grp_idx, invoked, generated_files, runs,
                    first_run >>

\* ------------------------------------------------- the resolver, run twice

\* The first locate_idl_files call returned; it is called again with the
\* same map.
LocateAgain ==
    /\ pc = "locate"
    /\ pkg_idx > Len(package_msgs)
    /\ runs = 0
    /\ first_run' = idl_generators
    /\ runs' = 1
    /\ pc' = "call_locate"
    /\ UNCHANGED << file_exists, file, replace, include_paths, package_msgs,
                    idl_generators, missing_packages, pkg_idx, registry,
                    msg_dirs, idl_files, lookups, running, dirs, out_files,
                    package_groups, grp_idx, invoked, generated_files,
                    exit_code >>

\* The second locate_idl_files call returned.
LocateTwiceDone ==
    /\ pc = "locate"
    /\ pkg_idx > Len(package_msgs)
    /\ runs = 1
    /\ runs' = 2
    /\ pc' = "relocated"
    /\ UNCHANGED << file_exists, file, replace, include_paths, package_msgs,
                    idl_generators, missing_packages, pkg_idx, registry,
                    msg_dirs, idl_files, lookups, running, dirs, out_files,
                    package_groups, grp_idx, invoked, generated_files,
                    exit_code, first_run >>

\* ---------------------------------------------------------- specifications

Next ==
    \/ MainParseFails
    \/ MainParseEmpty
    \/ MainParseOk
    \/ LocateEnter
    \/ LookupSpawnFails
    \/ LookupStart
    \/ LookupRaises
    \/ LookupNoMsgDir
    \/ LookupResolves
    \/ MainNoIdl
    \/ MainLocated
    \/ GenerateMkdirFails
    \/ GenerateEnter
    \/ GroupMkdirFails
    \/ GroupSpawnFails
    \/ GroupStart
    \/ GroupFails
    \/ GroupVerified
    \/ MainDone

\* One run of main().
Spec == Init /\ [][Next]_vars

NextParser ==
    \/ MainParseEmpty
    \/ MainParseOk

\* parse_message_list on its own, as main() calls it.
SpecParser == InitParser /\ [][NextParser]_vars

NextTwice ==
    \/ MainParseOk
    \/ LocateEnter
    \/ LookupSpawnFails
    \/ LookupStart
    \/ LookupRaises
    \/ LookupNoMsgDir
    \/ LookupResolves
    \/ LocateAgain
    \/ LocateTwiceDone

\* locate_idl_files called twice on the parsed map, the installed tree fixed.
SpecTwice == Init /\ [][NextTwice]_vars

\* ================================================================== claims

\* ---- vocabulary of the claims (stated on the text of the file's lines)

SetMin(S) == CHOOSE x \in S : \A y \in S : x <= y
SetMax(S) == CHOOSE x \in S : \A y \in S : x >= y

RECURSIVE Ascending(_)
Ascending(S) ==
    IF S = {} THEN << >>
    ELSE << SetMin(S) >> \o Ascending(S \ { SetMin(S) })

Count(seq, x) == Cardinality({ i \in 1..Len(seq) : seq[i] = x })

IsPrefix(s, t) == Len(s) <= Len(t) /\ SubSeq(t, 1, Len(s)) = s

\* The positions of s that hold no whitespace / that hold a separator.
Inked(s) == { i \in 1..Len(s) : s[i] \notin {" ", "\t", "\n", "\r"} }
Slashes(s) == { i \in 1..Len(s) : s[i] = "/" }

\* s without its leading and trailing whitespace.
Trimmed(s) ==
    LET ink == Inked(s)
    IN  IF ink = {} THEN << >> ELSE SubSeq(s, SetMin(ink), SetMax(ink))

\* The text before / after the first separator of a line, trimmed.
LinePackage(l) ==
    LET t == Trimmed(l) IN Trimmed(SubSeq(t, 1, SetMin(Slashes(t)) - 1))
LineMessage(l) ==
    LET t == Trimmed(l) IN Trimmed(SubSeq(t, SetMin(Slashes(t)) + 1, Len(t)))

\* A line that names a package/message pair.
ValidLine(l) ==
    LET t == Trimmed(l)
    IN  /\ t # << >>
        /\ t[1] # "#"
        /\ Slashes(t) # {}
        /\ LET cut == SetMin(Slashes(t))
           IN  /\ Inked(SubSeq(t, 1, cut - 1)) # {}
               /\ Inked(SubSeq(t, cut + 1, Len(t))) # {}

\* The valid lines among the lines the files are made of, with the package
\* and the message each names.
ValidLines == { l \in ParserLines : ValidLine(l) }
PackageOf == [l \in ValidLines |-> LinePackage(l)]
MessageOf == [l \in ValidLines |-> LineMessage(l)]

\* The positions of the valid lines of file f / of those naming package p.
ValidAt(f) == { i \in 1..Len(f) : f[i] \in ValidLines }
LinesOf(f, p) == { i \in ValidAt(f) : PackageOf[f[i]] = p }

\* The parser has returned.
Parsed == pc # "start" /\ file_exists

\* C1: the map returned by parse_message_list is exactly determined by the
\* valid lines of the file: its keys are the packages of the valid lines,
\* each once and in first-seen order; the list of a package is the messages
\* of its valid lines in file order; blank, comment and malformed lines add
\* nothing, so a file without a valid line gives the empty map.
C1_MapIsValidLines ==
    Parsed =>
        /\ { package_msgs[k].package : k \in 1..Len(package_msgs) }
               = { PackageOf[file[i]] : i \in ValidAt(file) }
        /\ \A j, k \in 1..Len(package_msgs) :
               j < k =>
                   /\ package_msgs[j].package # package_msgs[k].package
                   /\ SetMin(LinesOf(file, package_msgs[j].package))
                          < SetMin(LinesOf(file, package_msgs[k].package))
        /\ \A k \in 1..Len(package_msgs) :
               LET at == Ascending(LinesOf(file, package_msgs[k].package))
               IN  /\ Len(package_msgs[k].msg_types) = Len(at)
                   /\ \A n \in 1..Len(at) :
                          package_msgs[k].msg_types[n] = MessageOf[file[at[n]]]
        /\ (ValidAt(file) = {} => package_msgs = << >>)

\* C1 witness: a parsed file of three lines, one of them not valid, whose
\* two valid lines name two messages of one package.
C1_Witness ==
    /\ Parsed
    /\ Len(file) = 3
    /\ Cardinality(ValidAt(file)) = 2
    /\ Len(package_msgs) = 1
    /\ Len(package_msgs[1].msg_types) = 2
    /\ package_msgs[1].msg_types[1] # package_msgs[1].msg_types[2]

\* C8: every entry of the map comes from a line with exactly one separator:
\* a line with two or more separators gives no entry, and no stored message
\* type contains a separator.
C8_ExactlyOneSeparator ==
    Parsed =>
        /\ \A k \in 1..Len(package_msgs) :
               \A n \in 1..Len(package_msgs[k].msg_types) :
                   ~Contains(package_msgs[k].msg_types[n], "/")
        /\ LET several == { i \in 1..Len(file) : Cardinality(Slashes(file[i])) >= 2 }
           IN  \A k \in 1..Len(package_msgs) :
                   Len(package_msgs[k].msg_types)
                       = Cardinality(LinesOf(file, package_msgs[k].package) \ several)

\* ---- vocabulary of the claims about one run

\* The package loop of locate_idl_files has seen every key of the map.
LocateFinished ==
    /\ pc \notin {"start", "call_locate", "lookup_wait"}
    /\ pkg_idx > Len(package_msgs)

\* The three fatal ends of main().
FatalInput == pc = "exit" /\ ~file_exists
FatalEmpty == pc = "exit" /\ file_exists /\ package_msgs = << >>
FatalNoIdl == pc = "exit" /\ package_msgs # << >> /\ idl_generators = << >>

\* The descriptors of package p, in list order, and their message types.
DescriptorsOf(p) == SelectSeq(idl_generators, LAMBDA g : g.package = p)
MessagesOf(gens) == [n \in 1..Len(gens) |-> gens[n].msg_type]

\* <share>/msg/<message>.idl of an installed package
InstalledIdl(p, m) ==
    << "/", "s", "/" >> \o p \o << "/", "m", "s", "g", "/" >> \o m
    \o << ".", "i", "d", "l" >>

\* The package resolved: the registry named its share directory.
Resolved(p) == p \in DOMAIN registry /\ registry[p] = "ok"

\* The IDL file of message m of package p was seen to exist.
IdlSeen(p, m) ==
    InstalledIdl(p, m) \in DOMAIN idl_files /\ idl_files[InstalledIdl(p, m)]

\* C2: the exit status is non-zero exactly when the input file cannot be
\* parsed, the parsed map is empty or the resolver found no descriptor; every
\* other run ends with status 0.
C2_ExitStatus ==
    pc = "exit" =>
        /\ exit_code \in {0, 1}
        /\ exit_code # 0
               <=> (~file_exists \/ package_msgs = << >> \/ idl_generators = << >>)

\* C3: a package whose lookup fails (the command cannot run, exits non-zero
\* or prints an empty path) yields no descriptor and is recorded in
\* missing_packages; a package without msg directory yields none either; in
\* both cases every other package of the map is still looked up, and every
\* message of a resolved package whose IDL file exists yields a descriptor,
\* an absent IDL file skipping that message alone.
C3_FailuresAreIsolated ==
    LocateFinished =>
        \A k \in 1..Len(package_msgs) :
            LET p == package_msgs[k].package
            IN  /\ Count(lookups, p) >= 1
                /\ p \in DOMAIN registry
                /\ ~Resolved(p) =>
                       /\ DescriptorsOf(p) = << >>
                       /\ Count(missing_packages, p) = 1
                /\ Resolved(p) =>
                       /\ Count(missing_packages, p) = 0
                       /\ p \in DOMAIN msg_dirs
                       /\ ~msg_dirs[p] => DescriptorsOf(p) = << >>
                       /\ msg_dirs[p] =>
                              MessagesOf(DescriptorsOf(p))
                                  = SelectSeq(package_msgs[k].msg_types,
                                              LAMBDA m : IdlSeen(p, m))

\* C3 witness: the first package's lookup printed an empty path, the second
\* package resolved with one IDL file present and one absent.
C3_Witness ==
    /\ LocateFinished
    /\ Len(package_msgs) = 2
    /\ registry[package_msgs[1].package] = "empty"
    /\ missing_packages = << package_msgs[1].package >>
    /\ Resolved(package_msgs[2].package)
    /\ Len(idl_generators) = 1

\* ---- vocabulary of the claims about generate_uxr_code

\* The generator call has returned (or could not start).
Finished(i) == invoked[i].status # "running"

\* The group a generator call was made for.
GroupOf(i) == package_groups[GroupIndex(package_groups, invoked[i].package)]

\* <output>/<package>/msg/<name>
OutputFile(p, name) ==
    << "o", "u", "t", "/" >> \o p \o << "/", "m", "s", "g", "/" >> \o name

\* s is t with its capitals replaced by the small letters.
IsLowercased(s, t) ==
    /\ Len(s) = Len(t)
    /\ \A i \in 1..Len(t) :
           s[i] = (CASE t[i] = "X" -> "x" [] t[i] = "Y" -> "y"
                     [] t[i] = "Z" -> "z" [] OTHER -> t[i])

\* The descriptor's two files are both present.
BothPresent(gen) ==
    /\ PathJoin(PkgOutputDir(gen.package), gen.h_name) \in out_files
    /\ PathJoin(PkgOutputDir(gen.package), gen.c_name) \in out_files

\* Header and source of every descriptor of gens with both present.
RECURSIVE PairsOf(_)
PairsOf(gens) ==
    IF gens = << >> THEN << >>
    ELSE (IF BothPresent(Head(gens))
          THEN << PathJoin(PkgOutputDir(Head(gens).package), Head(gens).h_name),
                  PathJoin(PkgOutputDir(Head(gens).package), Head(gens).c_name) >>
          ELSE << >>)
         \o PairsOf(Tail(gens))

\* What the first i generator calls contribute: nothing unless the call
\* exited with 0.
RECURSIVE VerifiedUpTo(_)
VerifiedUpTo(i) ==
    IF i = 0 THEN << >>
    ELSE VerifiedUpTo(i - 1)
         \o (IF invoked[i].status = "ok" THEN PairsOf(GroupOf(i).generators)
             ELSE << >>)

\* C4: a generator call that fails (non-zero exit, or not started at all)
\* adds no path for its group and does not stop the loop: when the run ends
\* with status 0 every group has been called, in group order; the list holds
\* exactly the files of the descriptors whose group exited with 0 and whose
\* header and source are both present.
C4_GeneratorFailuresAreIsolated ==
    /\ \A i \in 1..Len(invoked) :
           /\ i <= Len(package_groups)
           /\ invoked[i].package = package_groups[i].package
           /\ i < Len(invoked) => Finished(i)
    /\ pc \in {"generate", "gen_wait"} \/ (pc = "exit" /\ exit_code = 0) =>
           generated_files
               = VerifiedUpTo(IF pc = "gen_wait" THEN Len(invoked) - 1 ELSE Len(invoked))
    /\ pc = "exit" /\ exit_code = 0 =>
           /\ Len(invoked) = Len(package_groups)
           /\ \A i \in 1..Len(invoked) : Finished(i)

\* C4 witness: a run that ended with status 0 in which the first group's
\* generator failed after writing its files and the second group's files
\* were verified.
C4_Witness ==
    /\ pc = "exit"
    /\ exit_code = 0
    /\ Len(invoked) = 2
    /\ invoked[1].status = "nonzero"
    /\ invoked[2].status = "ok"
    /\ Len(generated_files) = 2
    /\ ExpectedFiles(package_groups[1]) \subseteq out_files

\* C5: the stages run in order and a fatal exit comes before any side effect
\* of a later stage: on a fatal end (input missing, empty map, no descriptor)
\* no directory has been created and no generator called, and on the first
\* two no registry lookup was made either; directories are created and the
\* generator is called only once the map is non-empty and the resolver has
\* gone through it and found a descriptor.
C5_FatalBeforeSideEffects ==
    /\ FatalInput \/ FatalEmpty \/ FatalNoIdl =>
           /\ exit_code = 1
           /\ dirs = {}
           /\ invoked = << >>
           /\ out_files = {}
    /\ FatalInput \/ FatalEmpty => lookups = << >>
    /\ lookups # << >> => package_msgs # << >>
    /\ dirs # {} \/ invoked # << >> =>
           /\ package_msgs # << >>
           /\ LocateFinished
           /\ idl_generators # << >>
           /\ OutputDir \in dirs

\* C5 witness: a file holding nothing but a comment line ended the run
\* fatally.
C5_Witness ==
    /\ FatalEmpty
    /\ file = << << "#", " ", "n" >> >>
    /\ exit_code = 1

\* C6: the command of a group is the binary, the case flag, the overwrite
\* flag, the output flag with the package directory, an include flag and a
\* path per include directory, then the IDL path of every descriptor of the
\* group; the overwrite flag is there iff replace is set, no argument is
\* empty, and dropping the flag moves nothing else.
C6_CommandLine ==
    \A i \in 1..Len(invoked) :
        LET cmd  == invoked[i].cmd
            head == IF replace THEN 5 ELSE 4
            gens == DescriptorsOf(invoked[i].package)
        IN  /\ Len(cmd) = head + 2 * Len(include_paths) + Len(gens)
            /\ cmd[1] = << "m", "i", "c", "r", "o", "x", "r", "c", "e", "d", "d", "s", "g", "e", "n" >>
            /\ cmd[2] = << "-", "c", "s" >>
            /\ replace => cmd[3] = << "-", "r", "e", "p", "l", "a", "c", "e" >>
            /\ cmd[head - 1] = << "-", "d" >>
            /\ cmd[head] = << "o", "u", "t", "/" >> \o invoked[i].package
                               \o << "/", "m", "s", "g" >>
            /\ \A j \in 1..Len(include_paths) :
                   /\ cmd[head + 2 * j - 1] = << "-", "I" >>
                   /\ cmd[head + 2 * j] =
                          (IF include_paths[j] = << >> THEN << "." >>
                           ELSE include_paths[j])
            /\ \A n \in 1..Len(gens) :
                   cmd[head + 2 * Len(include_paths) + n] = gens[n].idl_path
            /\ (\E k \in 1..Len(cmd) : cmd[k] = << "-", "r", "e", "p", "l", "a", "c", "e" >>) <=> replace
            /\ \A k \in 1..Len(cmd) : cmd[k] # << >>

\* C6 witness: a generator call made with --no-replace, two include
\* directories of which one is the empty path, and two IDL files in the
\* group.
C6_Witness ==
    /\ ~replace
    /\ include_paths = << << "i" >>, << >> >>
    /\ invoked # << >>
    /\ Len(invoked[1].cmd) = 10

\* C7: the resolver run twice on the same map against the same installed
\* tree returns the same descriptors, the messages of a package in map
\* order; the first run leaves the map as the parser built it.
C7_ResolutionIsIdempotent ==
    pc = "relocated" =>
        /\ idl_generators = first_run
        /\ package_msgs = parse_message_list(file)
        /\ \A k \in 1..Len(package_msgs) :
               LET p == package_msgs[k].package
               IN  MessagesOf(DescriptorsOf(p))
                       = SelectSeq(package_msgs[k].msg_types,
                                   LAMBDA m : Resolved(p) /\ msg_dirs[p] /\ IdlSeen(p, m))

\* C7 witness: both runs are over, one package failed and another gave two
\* descriptors.
C7_Witness ==
    /\ pc = "relocated"
    /\ missing_packages # << >>
    /\ Len(idl_generators) = 2
    /\ Len(first_run) = 2

\* The packages with at least one descriptor.
PackagesWithDescriptor ==
    { idl_generators[n].package : n \in 1..Len(idl_generators) }

\* C9: in one run the generator is called exactly once for each package
\* with a descriptor and never for another, the call carries the IDL paths
\* of all descriptors of the package, the registry is asked exactly once per
\* package of the map, at most one child process runs at a time, and nothing
\* is retried.
C9_OneCallPerPackage ==
    /\ running \in {0, 1}
    /\ \A i \in 1..Len(invoked) :
           /\ invoked[i].package \in PackagesWithDescriptor
           /\ Count([k \in 1..Len(invoked) |-> invoked[k].package],
                    invoked[i].package) = 1
           /\ \A n \in 1..Len(idl_generators) :
                  idl_generators[n].package = invoked[i].package =>
                      Contains(invoked[i].cmd, idl_generators[n].idl_path)
    /\ \A k \in 1..Len(lookups) : Count(lookups, lookups[k]) = 1
    /\ pc = "exit" =>
           /\ \A p \in PackagesWithDescriptor :
                  Count([k \in 1..Len(invoked) |-> invoked[k].package], p) = 1
           /\ file_exists =>
                  \A k \in 1..Len(package_msgs) :
                      Count(lookups, package_msgs[k].package) = 1

\* The descriptors whose group's generator call has exited with 0.
VerifiedDescriptors ==
    { n \in 1..Len(idl_generators) :
        /\ BothPresent(idl_generators[n])
        /\ \E i \in 1..Len(invoked) :
               /\ invoked[i].package = idl_generators[n].package
               /\ invoked[i].status = "ok" }

\* The descriptor list and the generated-file list, as C10 describes them.
C10_PairsNow ==
    /\ LocateFinished /\ file_exists =>
           LET valid == ValidAt(file)
               pkg   == [i \in valid |-> PackageOf[file[i]]]
               msg   == [i \in valid |-> MessageOf[file[i]]]
           IN  \A i \in valid :
                   LET p == pkg[i]
                       m == msg[i]
                       listed == { j \in valid : pkg[j] = p /\ msg[j] = m }
                       found  == { n \in 1..Len(idl_generators) :
                                     /\ idl_generators[n].package = p
                                     /\ idl_generators[n].msg_type = m }
                   IN  /\ Cardinality(found) =
                              (IF Resolved(p) /\ msg_dirs[p] /\ IdlSeen(p, m)
                               THEN Cardinality(listed) ELSE 0)
                       /\ \A c \in 1..Len(invoked) :
                              invoked[c].package = p =>
                                  Count(invoked[c].cmd, InstalledIdl(p, m))
                                      = Cardinality(found)
    /\ Len(generated_files) % 2 = 0
    /\ \A k \in 1..Len(generated_files) :
           k % 2 = 1 =>
               \E n \in 1..Len(idl_generators) :
                   LET g    == idl_generators[n]
                       h    == generated_files[k]
                       stem == SubSeq(h, Len(OutputFile(g.package, << >>)) + 1,
                                      Len(h) - 2)
                   IN  /\ IsLowercased(stem, g.msg_type)
                       /\ h = OutputFile(g.package, stem \o << ".", "h" >>)
                       /\ generated_files[k + 1]
                              = OutputFile(g.package, stem \o << ".", "c" >>)
                       /\ h \in out_files
                       /\ generated_files[k + 1] \in out_files
    /\ pc = "generate" \/ (pc = "exit" /\ exit_code = 0) =>
           Len(generated_files) = 2 * Cardinality(VerifiedDescriptors)

\* C10: nothing is deduplicated and files come in pairs: one descriptor
\* per valid line whose package resolved and whose IDL file exists (a pair
\* listed k times gives k descriptors and k occurrences of its IDL path in
\* the package's command); the generated-file list is at every point a
\* sequence of pairs <output>/<package>/msg/<message lowercased>.h and the
\* matching .c, one pair per verified descriptor, none for a descriptor with
\* only one of its files present; and the list only grows.
C10_PairsNeverDeduplicated ==
    /\ []C10_PairsNow
    /\ [][IsPrefix(generated_files, generated_files')]_vars

\* C10 witness: a pair listed twice was verified twice, and a third
\* descriptor of the same group with only one file present added nothing.
C10_Witness ==
    /\ pc = "exit"
    /\ exit_code = 0
    /\ Len(idl_generators) = 3
    /\ idl_generators[1] = idl_generators[2]
    /\ Len(generated_files) = 4
    /\ generated_files[1] = generated_files[3]
    /\ generated_files[1] = << "o", "u", "t", "/", "a", "/", "m", "s", "g", "/", "x", ".", "h" >>
    /\ Cardinality(ExpectedFiles(package_groups[1]) \cap out_files) = 3

====
